---- MODULE Spec2Model ----
(***************************************************************************)
(* Model of the SIP creator: one run of EventListener.do_work (app.py) on  *)
(* a watchfolder message, the Sidecar parser (sidecar.py), the             *)
(* WatchfolderMessage parser (events.py) and the package assembly of       *)
(* Bag.create_sip_bag (bag.py) with the PREMIS object graph (premis.py).   *)
(* SpecListener is the consumer with its worker threads (handle_message,   *)
(* exit_gracefully and start of app.py); SpecSidecar, SpecClassify and     *)
(* SpecRepMets apply single functions to their inputs.                     *)
(*                                                                         *)
(* Text is a sequence of one-character strings.  An Optional[str] or an    *)
(* argument handed to a PREMIS node is a tagged value: NoneV, S(text) or   *)
(* L(list of texts).  Calls into the filesystem and into libraries are     *)
(* environment steps: they return, or they raise and the exception leaves  *)
(* do_work (the worker thread dies).                                       *)
(***************************************************************************)
EXTENDS Integers, Sequences, FiniteSets, TLC

\* ------------------------------------------------------------------ bounds
MaxItems == 4          \* entries of "sip_package" in a message
MaxWorkers == 3        \* messages delivered while the listener runs

\* --------------------------------------------------------- tagged values
NoneV == [t |-> "none", v |-> <<>>]
S(x) == [t |-> "str", v |-> <<x>>]
L(xs) == [t |-> "list", v |-> xs]
IsNone(o) == o.t = "none"
Text(o) == o.v[1]
\* Python truthiness of an Optional[str]
Truthy(o) == o.t = "str" /\ Text(o) # <<>>

\* ------------------------------------------------------------- str methods
Whitespace == {" ", "\t", "\n"}

RECURSIVE LStrip(_)
LStrip(s) == IF s # <<>> /\ Head(s) \in Whitespace THEN LStrip(Tail(s)) ELSE s

RECURSIVE RStrip(_)
RStrip(s) ==
    IF s # <<>> /\ s[Len(s)] \in Whitespace
    THEN RStrip(SubSeq(s, 1, Len(s) - 1))
    ELSE s

\* str.strip()
Strip(s) == RStrip(LStrip(s))

\* str.lower() and str.upper(), on the ASCII letters
LowerLetters ==
    << "a", "b", "c", "d", "e", "f", "g", "h", "i", "j", "k", "l", "m",
       "n", "o", "p", "q", "r", "s", "t", "u", "v", "w", "x", "y", "z" >>
UpperLetters ==
    << "A", "B", "C", "D", "E", "F", "G", "H", "I", "J", "K", "L", "M",
       "N", "O", "P", "Q", "R", "S", "T", "U", "V", "W", "X", "Y", "Z" >>
LetterIndex(letters, c) == CHOOSE i \in DOMAIN letters : letters[i] = c
LowerChar(c) ==
    IF \E i \in DOMAIN UpperLetters : UpperLetters[i] = c
    THEN LowerLetters[LetterIndex(UpperLetters, c)]
    ELSE c
Lower(s) == [i \in 1..Len(s) |-> LowerChar(s[i])]
UpperChar(c) ==
    IF \E i \in DOMAIN LowerLetters : LowerLetters[i] = c
    THEN UpperLetters[LetterIndex(LowerLetters, c)]
    ELSE c
Upper(s) == [i \in 1..Len(s) |-> UpperChar(s[i])]

\* optional_chain_strip without the strip
optional_chain_keep(opt_str) == opt_str

\* sidecar.py: optional_chain_strip
optional_chain_strip(opt_str) ==
    IF IsNone(opt_str) THEN NoneV ELSE S(Strip(Text(opt_str)))

\* ------------------------------------------------------------ sidecar.py
\* The sidecar document as the parser reads it: whether it is well-formed
\* XML and what findtext returns for each element it asks for.
Md5Texts ==
    { NoneV, S(<<>>), S(<<" ">>), S(<<"a", "b">>), S(<<" ", "A", "B", "\n">>),
      S(<<"c", "d">>) }
NameTexts(n) == { NoneV, S(<<>>), S(<<n>>) }
FormatTexts == { NoneV, S(<<"XDCAM">>), S(<<"xdcam">>) }

SidecarDocs ==
    [ wellformed : BOOLEAN,
      md5 : Md5Texts,
      Bestandsnaam : NameTexts("B"),
      bestandsnaam : NameTexts("b"),
      dc_source : NameTexts("s"),
      dc_identifier_localid : {NoneV, S(<<"lid">>)},
      other : NameTexts("o"),
      format : FormatTexts,
      sp_id : {NoneV, S(<<"sp">>)},
      player_model : {NoneV, S(<<"model">>)},
      player_manufacturer : {S(<<"brand">>)},
      player_serial_number : {S(<<"serial">>)} ]

\* The documents offered to a run of do_work: every md5, format and
\* local-identifier case, of the file-name hints only bestandsnaam.
PipelineDocs ==
    { d \in SidecarDocs :
        /\ d.Bestandsnaam = NoneV
        /\ d.bestandsnaam # S(<<>>)
        /\ d.dc_source = NoneV
        /\ (d.format # S(<<"XDCAM">>) => d.sp_id = NoneV)
        /\ (d.format # S(<<"XDCAM">>) => d.player_model = NoneV) }

\* Sidecar.__init__, lines 53-55: self.local_ids, one entry for every child
\* of dc_identifier_localids, in document order
\* (lid.text of an empty element is None)
LocalIds(d) ==
    LET ElementText(o) == IF o = S(<<>>) THEN NoneV ELSE o
    IN  SelectSeq(
            << [type |-> "Bestandsnaam", value |-> ElementText(d.Bestandsnaam)],
               [type |-> "bestandsnaam", value |-> ElementText(d.bestandsnaam)],
               [type |-> "other", value |-> ElementText(d.other)] >>,
            LAMBDA lid : d[lid.type] # NoneV)

\* Sidecar.__init__: the exception it raises, "" when it returns
SidecarError(d) ==
    IF ~d.wellformed THEN "XML syntax error"
    ELSE IF ~Truthy(optional_chain_strip(d.md5)) THEN "Missing mandatory key: 'md5'"
    ELSE ""

\* Sidecar.__init__ asking for the lower-case bestandsnaam first
SidecarInitLowerFirst(d) ==
    [ md5 |-> Text(optional_chain_strip(d.md5)),
      dc_source |-> d.dc_source,
      local_id_filename |->
          IF ~Truthy(d.bestandsnaam) THEN d.Bestandsnaam ELSE d.bestandsnaam,
      local_id |-> d.dc_identifier_localid,
      local_ids |-> LocalIds(d),
      format |-> d.format,
      sp_id |-> d.sp_id,
      player_model |-> d.player_model,
      player_manufacturer |-> d.player_manufacturer,
      player_serial_number |-> d.player_serial_number ]

\* Sidecar.__init__: the object it builds
SidecarInit(d) ==
    [ md5 |-> Text(optional_chain_strip(d.md5)),
      dc_source |-> d.dc_source,
      local_id_filename |->
          IF ~Truthy(d.Bestandsnaam) THEN d.bestandsnaam ELSE d.Bestandsnaam,
      local_id |-> d.dc_identifier_localid,
      local_ids |-> LocalIds(d),
      format |-> d.format,
      sp_id |-> d.sp_id,
      player_model |-> d.player_model,
      player_manufacturer |-> d.player_manufacturer,
      player_serial_number |-> d.player_serial_number ]

\* Sidecar.calculate_original_filename
calculate_original_filename(sc) ==
    IF Truthy(sc.local_id_filename) THEN sc.local_id_filename
    ELSE IF Truthy(sc.dc_source) THEN sc.dc_source
    ELSE NoneV

\* Sidecar.is_xdcam
is_xdcam(sc) == sc.format = S(<<"XDCAM">>)

\* --------------------------------------- bag.py: the classification tables
\* EXTENSION_MIMETYPE_MAP, the keys spelled character by character
EXTENSION_MIMETYPE_MAP ==
    (<<".", "j", "p", "g">> :> "image/jpeg") @@
    (<<".", "p", "d", "f">> :> "application/pdf") @@
    (<<".", "t", "i", "f", "f">> :> "image/tiff") @@
    (<<".", "t", "i", "f">> :> "image/tiff") @@
    (<<".", "m", "x", "f">> :> "application/mxf") @@
    (<<".", "m", "o", "v">> :> "video/quicktime") @@
    (<<".", "m", "p", "4">> :> "video/mp4") @@
    (<<".", "m", "p", "3">> :> "audio/mpeg") @@
    (<<".", "w", "a", "v">> :> "audio/x-wav") @@
    (<<".", "j", "p", "2">> :> "image/jp2") @@
    (<<".", "j", "p", "e", "g">> :> "image/jpeg") @@
    (<<".", "m", "p", "2">> :> "audio/mpeg") @@
    (<<".", "m", "p", "g">> :> "video/mpeg") @@
    (<<".", "o", "g", "g">> :> "audio/ogg") @@
    (<<".", "z", "i", "p">> :> "application/zip") @@
    (<<".", "t", "s">> :> "video/MP2T") @@
    (<<".", "m", "4", "v">> :> "video/mp4") @@
    (<<".", "x", "m", "l">> :> "application/xml") @@
    (<<".", "p", "s", "b">> :> "application/vnd.adobe.photoshop") @@
    (<<".", "m", "p", "e", "g">> :> "video/mpeg") @@
    (<<".", "m", "t", "s">> :> "video/MP2T") @@
    (<<".", "s", "r", "t">> :> "text/plain") @@
    (<<".", "m", "k", "v">> :> "video/x-matroska")

\* MIMETYPE_TYPE_MAP
MIMETYPE_TYPE_MAP ==
    ("image/jpeg" :> "Photographs - Digital") @@
    ("image/tiff" :> "Photographs - Digital") @@
    ("image/jp2" :> "Photographs - Digital") @@
    ("audio/mpeg" :> "Audio - Media-independent (digital)") @@
    ("audio/x-wav" :> "Audio - Media-independent (digital)") @@
    ("audio/ogg" :> "Audio - Media-independent (digital)") @@
    ("application/pdf" :> "Textual works - Digital") @@
    ("application/zip" :> "Collection") @@
    ("video/quicktime" :> "Video - File-based and Physical Media") @@
    ("video/mp4" :> "Video - File-based and Physical Media") @@
    ("video/MP2T" :> "Video - File-based and Physical Media") @@
    ("video/mpeg" :> "Video - File-based and Physical Media") @@
    ("application/mxf" :> "Video - File-based and Physical Media") @@
    ("application/vnd.adobe.photoshop" :> "Photographs - Digital") @@
    ("video/x-matroska" :> "Video - File-based and Physical Media")

\* pathlib: PurePath.suffix of a name spelled character by character
Suffix(name) ==
    LET Dots == {i \in DOMAIN name : name[i] = "."}
    IN  IF Dots = {} THEN <<>>
        ELSE LET i == CHOOSE k \in Dots : \A h \in Dots : h <= k
             IN  IF 1 < i /\ i < Len(name) THEN SubSeq(name, i, Len(name))
                 ELSE <<>>

\* guess_mimetype: the KeyError is caught and None returned
guess_mimetype(name) ==
    IF Lower(Suffix(name)) \in DOMAIN EXTENSION_MIMETYPE_MAP
    THEN S(<<EXTENSION_MIMETYPE_MAP[Lower(Suffix(name))]>>)
    ELSE NoneV

\* calculate_sip_type: the KeyError is caught and "OTHER" returned
calculate_sip_type(mimetype) ==
    IF ~IsNone(mimetype) /\ Text(mimetype)[1] \in DOMAIN MIMETYPE_TYPE_MAP
    THEN MIMETYPE_TYPE_MAP[Text(mimetype)[1]]
    ELSE "OTHER"

\* test_bag.py: the parameters of test_guess_mimetype
GuessMimetypeCases ==
    { [extension |-> <<".", "j", "p", "g">>, mimetype |-> "image/jpeg"],
      [extension |-> <<".", "p", "d", "f">>, mimetype |-> "application/pdf"],
      [extension |-> <<".", "t", "i", "f", "f">>, mimetype |-> "image/tiff"],
      [extension |-> <<".", "t", "i", "f">>, mimetype |-> "image/tiff"],
      [extension |-> <<".", "m", "x", "f">>, mimetype |-> "application/mxf"],
      [extension |-> <<".", "m", "o", "v">>, mimetype |-> "video/quicktime"],
      [extension |-> <<".", "m", "p", "4">>, mimetype |-> "video/mp4"],
      [extension |-> <<".", "m", "p", "3">>, mimetype |-> "audio/mpeg"],
      [extension |-> <<".", "w", "a", "v">>, mimetype |-> "audio/x-wav"],
      [extension |-> <<".", "j", "p", "2">>, mimetype |-> "image/jp2"],
      [extension |-> <<".", "j", "p", "e", "g">>, mimetype |-> "image/jpeg"],
      [extension |-> <<".", "m", "p", "2">>, mimetype |-> "audio/mpeg"],
      [extension |-> <<".", "m", "p", "g">>, mimetype |-> "video/mpeg"],
      [extension |-> <<".", "o", "g", "g">>, mimetype |-> "audio/ogg"],
      [extension |-> <<".", "z", "i", "p">>, mimetype |-> "application/zip"],
      [extension |-> <<".", "t", "s">>, mimetype |-> "video/MP2T"],
      [extension |-> <<".", "m", "4", "v">>, mimetype |-> "video/mp4"],
      [extension |-> <<".", "x", "m", "l">>, mimetype |-> "application/xml"],
      [extension |-> <<".", "p", "s", "b">>, mimetype |-> "image/vnd.adobe.photoshop"],
      [extension |-> <<".", "m", "p", "e", "g">>, mimetype |-> "video/mpeg"],
      [extension |-> <<".", "m", "t", "s">>, mimetype |-> "video/MP2T"],
      [extension |-> <<".", "s", "r", "t">>, mimetype |-> "text/plain"],
      [extension |-> <<".", "m", "k", "v">>, mimetype |-> "video/x-matroska"],
      [extension |-> <<".", "a", "v", "i">>, mimetype |-> "video/x-msvideo"],
      [extension |-> <<".", "d", "n", "g">>, mimetype |-> "image/x-adobe-dng"],
      [extension |-> <<".", "f", "l", "v">>, mimetype |-> "video/x-flv"],
      [extension |-> <<".", "w", "m", "v">>, mimetype |-> "video/x-ms-wmv"],
      [extension |-> <<".", "d", "v">>, mimetype |-> "video/x-dv"],
      [extension |-> <<".", "f", "4", "v">>, mimetype |-> "video/mp4"],
      [extension |-> <<".", "p", "n", "g">>, mimetype |-> "image/png"],
      [extension |-> <<".", "m", "4", "a">>, mimetype |-> "audio/mp4"],
      [extension |-> <<".", "v", "o", "b">>, mimetype |-> "video/dvd"],
      [extension |-> <<".", "m", "2", "v">>, mimetype |-> "video/mpeg"],
      [extension |-> <<".", "a", "i", "f">>, mimetype |-> "audio/aiff"],
      [extension |-> <<".", "w", "m", "a">>, mimetype |-> "audio/x-ms-wma"],
      [extension |-> <<".", "a", "c", "3">>, mimetype |-> "audio/ac3"],
      [extension |-> <<".", "p", "s", "d">>, mimetype |-> "image/vnd.adobe.photoshop"] }

\* test_bag.py: the parameters of test_calculate_sip_type
SipTypeCases ==
    { [mimetype |-> "image/jpeg", sip_type |-> "Photographs - Digital"],
      [mimetype |-> "image/tiff", sip_type |-> "Photographs - Digital"],
      [mimetype |-> "image/jp2", sip_type |-> "Photographs - Digital"],
      [mimetype |-> "audio/mpeg", sip_type |-> "Audio - Media-independent (digital)"],
      [mimetype |-> "audio/x-wav", sip_type |-> "Audio - Media-independent (digital)"],
      [mimetype |-> "audio/ogg", sip_type |-> "Audio - Media-independent (digital)"],
      [mimetype |-> "application/pdf", sip_type |-> "Textual works - Digital"],
      [mimetype |-> "application/zip", sip_type |-> "Collection"],
      [mimetype |-> "video/quicktime", sip_type |-> "Video - File-based and Physical Media"],
      [mimetype |-> "video/mp4", sip_type |-> "Video - File-based and Physical Media"],
      [mimetype |-> "video/MP2T", sip_type |-> "Video - File-based and Physical Media"],
      [mimetype |-> "video/mpeg", sip_type |-> "Video - File-based and Physical Media"],
      [mimetype |-> "application/mxf", sip_type |-> "Video - File-based and Physical Media"],
      [mimetype |-> "image/vnd.adobe.photoshop", sip_type |-> "Photographs - Digital"],
      [mimetype |-> "video/x-matroska", sip_type |-> "Video - File-based and Physical Media"],
      [mimetype |-> "video/x-msvideo", sip_type |-> "Video - File-based and Physical Media"],
      [mimetype |-> "image/x-adobe-dng", sip_type |-> "Photographs - Digital"],
      [mimetype |-> "video/x-flv", sip_type |-> "Video - File-based and Physical Media"],
      [mimetype |-> "video/x-ms-wmv", sip_type |-> "Video - File-based and Physical Media"],
      [mimetype |-> "video/x-dv", sip_type |-> "Video - File-based and Physical Media"],
      [mimetype |-> "image/png", sip_type |-> "Other Graphic Images - Digital"],
      [mimetype |-> "audio/mp4", sip_type |-> "Audio - Media-independent (digital)"],
      [mimetype |-> "video/dvd", sip_type |-> "Video - File-based and Physical Media"],
      [mimetype |-> "audio/aiff", sip_type |-> "Audio - Media-independent (digital)"],
      [mimetype |-> "audio/x-ms-wma", sip_type |-> "Audio - Media-independent (digital)"],
      [mimetype |-> "audio/ac3", sip_type |-> "Audio - Media-independent (digital)"] }

\* the names handed to guess_mimetype: every extension of the tests in
\* lower and in upper case, an unknown extension and none at all
FileNames ==
    { <<"f">> \o c.extension : c \in GuessMimetypeCases }
    \cup { <<"f">> \o Upper(c.extension) : c \in GuessMimetypeCases }
    \cup { <<"f", ".", "u", "n", "k", "n", "o", "w", "n">>, <<"f">> }

\* the arguments handed to calculate_sip_type: every mimetype of the tests,
\* two mimetypes without a type, and None
Mimetypes ==
    { S(<<c.mimetype>>) : c \in SipTypeCases }
    \cup { S(<<"text/plain">>), S(<<"application/xml">>), NoneV }

\* ------------------------------------------------------------- events.py
TopKeys == {"cp_name", "flow_id", "sip_package"}
ItemKeys == {"file_type", "file_name", "file_path"}

EssenceItem ==
    [keys |-> ItemKeys, file_type |-> "essence",
     file_name |-> <<"a", "mxf">>, file_path |-> <<"in">>]
\* an essence whose stem has a dot of its own
DottedEssenceItem ==
    [keys |-> ItemKeys, file_type |-> "essence",
     file_name |-> <<"a", "b", "mxf">>, file_path |-> <<"in">>]
SidecarItem ==
    [keys |-> ItemKeys, file_type |-> "sidecar",
     file_name |-> <<"a", "xml">>, file_path |-> <<"in">>]
SubtitleItem ==
    [keys |-> ItemKeys, file_type |-> "collateral",
     file_name |-> <<"s", "srt">>, file_path |-> <<"in">>]
\* a collateral of another directory that is named like the essence
TwinItem ==
    [keys |-> ItemKeys, file_type |-> "collateral",
     file_name |-> <<"a", "mxf">>, file_path |-> <<"other">>]
\* an entry without "file_path"
PathlessItem ==
    [keys |-> {"file_type", "file_name"}, file_type |-> "collateral",
     file_name |-> <<"s", "srt">>, file_path |-> <<>>]
ItemSet ==
    { EssenceItem, DottedEssenceItem, SidecarItem, SubtitleItem, TwinItem,
      PathlessItem }

\* The bodies a message can carry: not JSON at all, or a JSON object with
\* some of the top-level keys and a list of entries.
Bodies ==
    {[json |-> FALSE, top |-> {}, items |-> <<>>]}
    \cup [json : {TRUE}, top : SUBSET TopKeys,
          items : UNION {[1..k -> ItemSet] : k \in 0..MaxItems}]

\* SIPItem.__init__
SIPItem(sip_item) ==
    [file_name |-> sip_item.file_name, file_path |-> sip_item.file_path]

\* WatchfolderMessage.__init__: the exception it raises, "" when it returns
MessageError(b) ==
    IF ~b.json THEN "Message is not valid JSON"
    ELSE IF \/ TopKeys \ b.top # {}
            \/ \E i \in 1..Len(b.items) : ItemKeys \ b.items[i].keys # {}
         THEN "Missing mandatory key"
         ELSE ""

IsCollateral(it) == it.file_type = "collateral"

RECURSIVE MapSIPItem(_)
MapSIPItem(items) ==
    IF items = <<>> THEN <<>>
    ELSE <<SIPItem(Head(items))>> \o MapSIPItem(Tail(items))

\* WatchfolderMessage.__init__: self.files; a later entry of a file type
\* replaces an earlier one, the collaterals are appended in message order
MessageInit(b) ==
    LET others == {i \in 1..Len(b.items) : ~IsCollateral(b.items[i])}
        types == {b.items[i].file_type : i \in others}
        last(ft) ==
            CHOOSE i \in others :
                /\ b.items[i].file_type = ft
                /\ \A j \in others : b.items[j].file_type = ft => j <= i
    IN  [ flow_id |-> "flow",
          files |-> [ft \in types |-> SIPItem(b.items[last(ft)])],
          collateral |-> MapSIPItem(SelectSeq(b.items, IsCollateral)) ]

\* WatchfolderMessage._get_files for 'essence' and 'sidecar': ValueError
\* when the message carried no entry of that type
HasFile(msg, file_type) == file_type \in DOMAIN msg.files

\* Path(file.file_path, file.file_name)
PathOf(file) == [dir |-> file.file_path, name |-> file.file_name]

\* WatchfolderMessage.get_essence_path / get_xml_path
get_essence_path(msg) == PathOf(msg.files["essence"])
get_xml_path(msg) == PathOf(msg.files["sidecar"])

RECURSIVE MapPathOf(_)
MapPathOf(items) ==
    IF items = <<>> THEN <<>>
    ELSE <<PathOf(Head(items))>> \o MapPathOf(Tail(items))

\* WatchfolderMessage.get_collateral_paths
get_collateral_paths(msg) == MapPathOf(msg.collateral)

\* pathlib: Path.stem, the name without its last suffix
Stem(name) == IF Len(name) > 1 THEN SubSeq(name, 1, Len(name) - 1) ELSE name

\* ------------------------------------------------------------- premis.py
\* The members of the enum RelationshipSubtype
RelationshipSubtype == {"INCLUDES", "REPRESENTED_BY", "REPRESENTS", "INCLUDED_IN"}

\* Relationship.TYPE_URI_MAP
TYPE_URI_MAP ==
    [ subtype \in RelationshipSubtype |->
        CASE subtype = "INCLUDES" -> "inc"
          [] subtype = "REPRESENTED_BY" -> "isr"
          [] subtype = "REPRESENTS" -> "rep"
          [] subtype = "INCLUDED_IN" -> "isi" ]

\* ObjectIdentifier.__init__
ObjectIdentifier(type, value) == [type |-> type, value |-> value]

\* Relationship.__init__: the second argument is kept as it is handed in
Relationship(subtype, uuid) == [subtype |-> subtype, uuid |-> uuid]

\* Object.__init__
Object(type, identifiers, original_name, fixity, relationships, storages) ==
    [class |-> "object", type |-> type, identifiers |-> identifiers,
     original_name |-> original_name, fixity |-> fixity,
     relationships |-> relationships, storages |-> storages]
\* Object.add_relationship
add_relationship(o, r) == [o EXCEPT !.relationships = Append(@, r)]

\* AgentExtension.__init__
AgentExtension(model, brand_name, serial_number) ==
    <<[model |-> model, brand_name |-> brand_name, serial_number |-> serial_number]>>

\* AgentIdentifier.__init__ / Agent.__init__; extension is <<>> for None
Agent(identifiers, type, extension) ==
    [class |-> "agent", identifiers |-> identifiers, type |-> type,
     extension |-> extension]

\* LinkingAgentIdentifier.__init__ / LinkingObjectIdentifier.__init__
LinkingIdentifier(type, value, role) ==
    [type |-> type, value |-> value, role |-> role]

\* Event.__init__
Event(identifier, type, linking_agent_identifiers, linking_object_identifiers) ==
    [class |-> "event", identifier |-> identifier, type |-> type,
     linking_agent_identifiers |-> linking_agent_identifiers,
     linking_object_identifiers |-> linking_object_identifiers]

\* Premis.__init__
Premis == [objects |-> <<>>, events |-> <<>>, agents |-> <<>>]
\* Premis.add_object / add_event / add_agent
add_object(p, o) == [p EXCEPT !.objects = Append(@, o)]
add_event(p, e) == [p EXCEPT !.events = Append(@, e)]
add_agent(p, a) == [p EXCEPT !.agents = Append(@, a)]

\* Relationship.to_element: the relatedObjectIdentifier nodes it appends,
\* one node whose value is self.uuid
RelatedObjectIdentifiers(rel) == <<rel.uuid>>

\* Premis.to_element: the nodes under the root in document order, every
\* member of the three lists rendered by its own to_element
PremisNodes(p) == p.objects \o p.events \o p.agents

\* ---------------------------------------------------------------- bag.py
\* mets.generate_uuid: the n-th identifier handed out in a run
Uuid(n) == <<"uuid", ToString(n)>>

RECURSIVE Keys(_)
\* list(collaterals.keys())
Keys(collaterals) ==
    IF collaterals = <<>> THEN <<>>
    ELSE <<Head(collaterals).uuid>> \o Keys(Tail(collaterals))

RECURSIVE LocalIdentifiers(_)
\* Bag._write_preservation_metadata_ie, lines 417-420: the loop over
\* sidecar.local_ids
LocalIdentifiers(local_ids) ==
    IF local_ids = <<>> THEN <<>>
    ELSE LET lid == Head(local_ids)
         IN  (IF lid.type \notin {"bestandsnaam", "Bestandsnaam"}
              THEN <<ObjectIdentifier(lid.type, lid.value)>>
              ELSE <<>>)
             \o LocalIdentifiers(Tail(local_ids))

\* Bag._write_preservation_metadata_ie: the Premis object it builds; n is
\* the number of identifiers handed out so far
PremisIE(sc, ie_uuid, rep_uuid, n) ==
    LET player_agent_uuid == Uuid(n + 1)
        premis_object_rep_uuid == Uuid(n + 2)
        ie == add_relationship(
                  Object("IE",
                         << ObjectIdentifier("uuid", S(ie_uuid)),
                            ObjectIdentifier("local_id", sc.local_id) >>
                         \o LocalIdentifiers(sc.local_ids),
                         NoneV, NoneV, <<>>, <<>>),
                  Relationship("REPRESENTED_BY", L(<<rep_uuid>>)))
        rep == Object("REPRESENTATION",
                      <<ObjectIdentifier("uuid", S(premis_object_rep_uuid))>>,
                      NoneV, NoneV, <<>>, <<"XDCAM">>)
        event == Event(S(Uuid(n + 3)), "DIGITIZATION",
                   << LinkingIdentifier("VIAA SP Agent ID", sc.sp_id, "implementer"),
                      LinkingIdentifier("UUID", S(player_agent_uuid), "player") >>,
                   << LinkingIdentifier("UUID", S(rep_uuid), "outcome"),
                      LinkingIdentifier("UUID", S(premis_object_rep_uuid), "source") >>)
        agent_sp == Agent(<<ObjectIdentifier("VIAA SP Agent ID", sc.sp_id)>>,
                          "SP Agent", <<>>)
        agent_player == Agent(<<ObjectIdentifier("UUID", S(player_agent_uuid))>>,
                              "player",
                              AgentExtension(sc.player_model, sc.player_manufacturer,
                                             sc.player_serial_number))
    IN  IF is_xdcam(sc)
        THEN add_agent(
                 add_event(
                     add_event(add_object(add_object(Premis, ie), rep), event),
                     agent_sp),
                 agent_player)
        ELSE add_object(Premis, ie)

\* the identifiers _write_preservation_metadata_ie takes from generate_uuid
PremisIEUuids(sc) == IF is_xdcam(sc) THEN 3 ELSE 0

RECURSIVE CollateralObjects(_, _, _)
\* Bag._write_preservation_metadata_representation: the loop over the
\* collaterals; digest gives md5(path) of each
CollateralObjects(collaterals, rep_uuid, file_uuid) ==
    IF collaterals = <<>> THEN <<>>
    ELSE LET c == Head(collaterals)
         IN  << Object("FILE", <<ObjectIdentifier("uuid", S(c.uuid))>>,
                       S(c.path.name), S(c.digest),
                       << Relationship("INCLUDED_IN", L(<<rep_uuid>>)),
                          Relationship("REQUIRES", L(<<file_uuid>>)) >>,
                       <<>>) >>
             \o CollateralObjects(Tail(collaterals), rep_uuid, file_uuid)

\* the enum members _write_preservation_metadata_representation reads
SubtypesRead(collaterals) ==
    {"INCLUDES", "REPRESENTS", "INCLUDED_IN"}
    \cup (IF collaterals # <<>> THEN {"IS_REQUIRED_BY", "REQUIRES"} ELSE {})

\* Bag._write_preservation_metadata_representation: the Premis object
PremisRep(sc, essence, rep_uuid, file_uuid, ie_uuid, collaterals) ==
    LET rep == Object("REPRESENTATION", <<ObjectIdentifier("uuid", S(rep_uuid))>>,
                      NoneV, NoneV,
                      << Relationship("INCLUDES",
                                      L(<<file_uuid>> \o Keys(collaterals))),
                         Relationship("REPRESENTS", L(<<ie_uuid>>)) >>,
                      <<>>)
        name == calculate_original_filename(sc)
        original_name == IF ~Truthy(name) THEN S(essence.name) ELSE name
        file == Object("FILE", <<ObjectIdentifier("uuid", S(file_uuid))>>,
                       original_name, S(sc.md5),
                       << Relationship("INCLUDED_IN", L(<<rep_uuid>>)) >>
                       \o (IF collaterals # <<>>
                           THEN <<Relationship("IS_REQUIRED_BY", L(Keys(collaterals)))>>
                           ELSE <<>>),
                       <<>>)
    IN  [ objects |-> <<rep, file>>
                      \o CollateralObjects(collaterals, rep_uuid, file_uuid),
          events |-> <<>>, agents |-> <<>> ]

\* the content of files: lower-case hex digests of the two contents a data
\* file can have, and the digest taken of a written document
Digests == { <<"a", "b">>, <<"c", "d">> }
DataFile(digest) == [kind |-> "data", digest |-> digest]
Document(doc) == [kind |-> "doc", digest |-> <<"0", "0">>, doc |-> doc]

\* pathlib: PurePath.with_suffix applied to a name
WithSuffix(name, suffix) ==
    IF Len(name) > 1 THEN SubSeq(name, 1, Len(name) - 1) \o suffix
    ELSE name \o suffix

\* a file of the working directory, located relative to root_folder
InRoot(dir, name) == [dir |-> dir, name |-> name]

\* ------------------------------------------------------------------ state
VARIABLES
    pc,          \* where the run of do_work stands
    crash,       \* the exception that left do_work, "" if none
    message,     \* <<WatchfolderMessage>> once parsed
    found,       \* <<what exists() answered for the essence and the sidecar>>
    sidecar,     \* <<Sidecar>> once parsed
    attributes,  \* EventAttributes of the outgoing event
    data,        \* the payload dict of the outgoing event
    events,      \* events produced on the Pulsar topic
    callbacks,   \* ack/nack callbacks handed to add_callback_threadsafe
    ids,         \* ie_uuid, rep_uuid, file_uuid, collaterals_map
    issued,      \* number of identifiers generate_uuid has handed out
    dirs,        \* directories under (and including) root_folder
    files,       \* files under root_folder and their content
    bag,         \* <<bag.entries>> once make_bag returned
    archive,     \* <<the zip file>> once written
    stages,      \* the steps of create_sip_bag taken so far
    inputs,      \* the content read from the essence and the collaterals
    sc_doc,      \* a sidecar document given to Sidecar() on its own
    sc_error,    \* the exception Sidecar() raised for it
    sc_name,     \* what calculate_original_filename returned for it
    gm_file,     \* a file name given to guess_mimetype on its own
    gm_result,   \* what guess_mimetype returned for it
    st_mimetype, \* a mimetype given to calculate_sip_type on its own
    st_result,   \* what calculate_sip_type returned
    main,        \* where the thread that runs EventListener.start() is
    consuming,   \* FALSE once stop_consuming was called
    workers,     \* the worker threads created so far
    threads,     \* self.threads
    thread,      \* <<the thread handle_message has started, not yet appended>>
    delivery,    \* <<the body handle_message was called with>>
    pending,     \* callbacks added with add_callback_threadsafe, not yet run
    acked,       \* the workers whose ack or nack callback has run
    joining      \* position of the join loop in self.threads

vars ==
    << pc, crash, message, found, sidecar, attributes, data, events, callbacks,
       ids, issued, dirs, files, bag, archive, stages, inputs,
       sc_doc, sc_error, sc_name, gm_file, gm_result, st_mimetype, st_result,
       main, consuming, workers, threads, thread, delivery, pending, acked,
       joining >>

run_vars == << message, found, sidecar, attributes, data, events, callbacks >>
bag_vars == << ids, issued, dirs, files, bag, archive, stages, inputs >>
fn_vars == << gm_file, gm_result, st_mimetype, st_result >>
ln_vars ==
    << main, consuming, workers, threads, thread, delivery, pending, acked,
       joining >>
sc_vars == << sc_doc, sc_error, sc_name, fn_vars, ln_vars >>

NoFiles == [f \in {} |-> DataFile(<<>>)]
NoData == [k \in {} |-> NoneV]
NoDoc == [ wellformed |-> FALSE, md5 |-> NoneV, Bestandsnaam |-> NoneV,
           bestandsnaam |-> NoneV, dc_source |-> NoneV,
           dc_identifier_localid |-> NoneV, other |-> NoneV, format |-> NoneV,
           sp_id |-> NoneV, player_model |-> NoneV,
           player_manufacturer |-> S(<<"brand">>),
           player_serial_number |-> S(<<"serial">>) ]

\* the state shared by every specification: nothing received yet
Blank ==
    /\ crash = ""
    /\ message = <<>>
    /\ found = <<>>
    /\ sidecar = <<>>
    /\ attributes = <<>>
    /\ data = NoData
    /\ events = <<>>
    /\ callbacks = <<>>
    /\ ids = <<>>
    /\ issued = 0
    /\ dirs = {}
    /\ files = NoFiles
    /\ bag = <<>>
    /\ archive = <<>>
    /\ stages = <<>>
    /\ inputs = NoFiles
    /\ sc_error = ""
    /\ sc_name = NoneV
    /\ gm_result = NoneV
    /\ st_result = ""
    /\ main = "listen"
    /\ consuming = TRUE
    /\ workers = <<>>
    /\ threads = <<>>
    /\ thread = <<>>
    /\ delivery = <<>>
    /\ pending = <<>>
    /\ acked = {}
    /\ joining = 1

\* handle_message has started a worker thread on do_work
Init ==
    /\ Blank
    /\ pc = "received"
    /\ sc_doc = NoDoc
    /\ gm_file = <<>>
    /\ st_mimetype = NoneV

\* ----------------------------------------------------------------- app.py
\* EventListener.send_ack_message
send_ack_message == callbacks' = Append(callbacks, [op |-> "ack", requeue |-> FALSE])

\* send_nack_message that always requeues
send_nack_message_requeue(requeue) ==
    callbacks' = Append(callbacks, [op |-> "nack", requeue |-> TRUE])

\* EventListener.send_nack_message
send_nack_message(requeue) ==
    callbacks' = Append(callbacks, [op |-> "nack", requeue |-> requeue])

\* EventListener.send_pulsar_message
send_pulsar_message(attrs, payload) ==
    events' = Append(events, [attributes |-> attrs, data |-> payload])

\* dict item assignment
Put(dict, key, value) == (key :> value) @@ dict

\* send_failed_pulsar_message that marks the payload and sends nothing
send_failed_pulsar_message_unsent(attrs, payload, text) ==
    /\ data' = Put(Put(payload, "outcome", S(<<"failure">>)),
                   "message", S(<<text>>))
    /\ UNCHANGED events

\* EventListener.send_failed_pulsar_message
send_failed_pulsar_message(attrs, payload, text) ==
    LET failed == Put(Put(payload, "outcome", S(<<"failure">>)),
                      "message", S(<<text>>))
    IN  /\ data' = failed
        /\ send_pulsar_message(attrs, failed)

\* an exception leaves do_work: the thread ends without event, ack or nack
Raise(exception) ==
    /\ pc' = "dead"
    /\ crash' = exception

\* do_work, lines 94-100: parse the message
ParseMessage ==
    /\ pc = "received"
    /\ \E body \in Bodies :
        IF MessageError(body) # ""
        THEN /\ send_nack_message(FALSE)
             /\ pc' = "done"
             /\ UNCHANGED message
        ELSE /\ message' = <<MessageInit(body)>>
             /\ pc' = "parsed"
             /\ UNCHANGED callbacks
    /\ UNCHANGED << crash, found, sidecar, attributes, data, events >>
    /\ UNCHANGED << bag_vars, sc_vars >>

\* do_work, lines 102-103: get_essence_path and get_xml_path
GetPaths ==
    /\ pc = "parsed"
    /\ IF HasFile(message[1], "essence") /\ HasFile(message[1], "sidecar")
       THEN pc' = "located" /\ UNCHANGED crash
       ELSE Raise("ValueError")
    /\ UNCHANGED << run_vars, bag_vars, sc_vars >>

\* the existence check with "and" for "or"
PathsBothMissing(essence_exists, xml_exists) == ~essence_exists /\ ~xml_exists

\* do_work, line 106: not essence_path.exists() or not xml_path.exists()
PathsMissing(essence_exists, xml_exists) == ~essence_exists \/ ~xml_exists

\* do_work, lines 105-129: the existence check, then attributes and data
CheckPaths ==
    /\ pc = "located"
    /\ \E essence_exists \in BOOLEAN, xml_exists \in BOOLEAN :
        /\ found' = <<[essence |-> essence_exists, sidecar |-> xml_exists]>>
        /\ IF PathsMissing(essence_exists, xml_exists)
           THEN /\ send_nack_message(FALSE)
                /\ pc' = "done"
                /\ UNCHANGED << attributes, data >>
           ELSE /\ attributes' =
                    << [ subject |-> Stem(get_essence_path(message[1]).name),
                         outcome |-> "success" ] >>
                /\ data' =
                    Put(Put(Put(Put(NoData, "host", S(<<"host">>)),
                        "essence_filename", S(get_essence_path(message[1]).name)),
                        "cp_id", S(<<message[1].flow_id>>)),
                        "essence_filesize", S(<<"size">>))
                /\ pc' = "checked"
                /\ UNCHANGED callbacks
    /\ UNCHANGED << crash, message, sidecar, events >>
    /\ UNCHANGED << bag_vars, sc_vars >>

\* do_work, lines 131-139: parse the sidecar
ParseSidecar ==
    /\ pc = "checked"
    /\ \E d \in PipelineDocs :
        IF SidecarError(d) # ""
        THEN /\ send_failed_pulsar_message(attributes[1], data, "Sidecar not valid.")
             /\ send_nack_message(FALSE)
             /\ pc' = "done"
             /\ UNCHANGED sidecar
        ELSE /\ sidecar' = <<SidecarInit(d)>>
             /\ pc' = "sidecar"
             /\ UNCHANGED << data, events, callbacks >>
    /\ UNCHANGED << crash, message, found, attributes >>
    /\ UNCHANGED << bag_vars, sc_vars >>

\* --------------------------------------------------- Bag.create_sip_bag
Stage(name) == stages' = Append(stages, name)

MetadataDir == <<"metadata">>
MetadataDescDir == <<"metadata", "descriptive">>
MetadataPresDir == <<"metadata", "preservation">>
RepresentationDir == <<"representations", "representation_1">>
RepresentationDataDir == RepresentationDir \o <<"data">>
RepresentationMetadataDir == RepresentationDir \o <<"metadata">>
RepresentationDescDir == RepresentationMetadataDir \o <<"descriptive">>
RepresentationPresDir == RepresentationMetadataDir \o <<"preservation">>

DcXml == InRoot(MetadataDescDir, <<"dc", "xml">>)
PremisIEXml == InRoot(MetadataPresDir, <<"premis", "xml">>)
PremisRepXml == InRoot(RepresentationPresDir, <<"premis", "xml">>)
RepMetsXml == InRoot(RepresentationDir, <<"mets", "xml">>)
PackageMetsXml == InRoot(<<>>, <<"mets", "xml">>)

RECURSIVE CollateralsMapOneUuid(_, _)
\* one generate_uuid before the loop instead of one per collateral
CollateralsMapOneUuid(paths, n) ==
    IF paths = <<>> THEN <<>>
    ELSE <<[uuid |-> Uuid(n + 1), path |-> Head(paths)]>>
         \o CollateralsMapOneUuid(Tail(paths), n)

RECURSIVE CollateralsMap(_, _)
\* lines 669-672: one generate_uuid per collateral, n handed out before
CollateralsMap(paths, n) ==
    IF paths = <<>> THEN <<>>
    ELSE <<[uuid |-> Uuid(n + 1), path |-> Head(paths)]>>
         \o CollateralsMap(Tail(paths), n + 1)

\* lines 657-672: the paths still exist; allocate the identifiers
AllocateIds ==
    /\ pc = "sidecar"
    /\ LET collateral_paths == get_collateral_paths(message[1])
       IN  /\ ids' = << [ ie_uuid |-> Uuid(issued + 1),
                          rep_uuid |-> Uuid(issued + 2),
                          file_uuid |-> Uuid(issued + 3),
                          collaterals_map |->
                              CollateralsMap(collateral_paths, issued + 3) ] >>
           /\ issued' = issued + 3 + Len(collateral_paths)
    /\ Stage("ids")
    /\ pc' = "ids"
    /\ UNCHANGED << crash, run_vars, dirs, files, bag, archive, inputs, sc_vars >>

\* lines 660-662 and app.py line 143: a path is gone by now, create_sip_bag
\* returns None and the caller fails to unpack it
ReturnNone ==
    /\ pc = "sidecar"
    /\ Raise("TypeError")
    /\ UNCHANGED << run_vars, bag_vars, sc_vars >>

\* lines 674-683: root_folder, /metadata, /metadata/descriptive
MakeRootFolders ==
    /\ pc = "ids"
    /\ dirs' = dirs \cup {<<>>, MetadataDir, MetadataDescDir}
    /\ Stage("mkdir root")
    /\ pc' = "root"
    /\ UNCHANGED << crash, run_vars, ids, issued, files, bag, archive, inputs, sc_vars >>

\* line 685, _write_descriptive_metadata_ie: dc.xml from the sidecar
WriteDescriptive ==
    /\ pc = "root"
    /\ files' = Put(files, DcXml, Document([ie_uuid |-> ids[1].ie_uuid]))
    /\ Stage("dc.xml")
    /\ pc' = "dc"
    /\ UNCHANGED << crash, run_vars, ids, issued, dirs, bag, archive, inputs, sc_vars >>

\* lines 687-689: /metadata/preservation
MakePreservationFolder ==
    /\ pc = "dc"
    /\ dirs' = dirs \cup {MetadataPresDir}
    /\ Stage("mkdir preservation")
    /\ pc' = "preservation"
    /\ UNCHANGED << crash, run_vars, ids, issued, files, bag, archive, inputs, sc_vars >>

\* line 692, _write_preservation_metadata_ie: premis.xml on IE level
WritePremisIE ==
    /\ pc = "preservation"
    /\ files' = Put(files, PremisIEXml,
                    Document(PremisIE(sidecar[1], ids[1].ie_uuid,
                                      ids[1].rep_uuid, issued)))
    /\ issued' = issued + PremisIEUuids(sidecar[1])
    /\ Stage("premis.xml ie")
    /\ pc' = "premis_ie"
    /\ UNCHANGED << crash, run_vars, ids, dirs, bag, archive, inputs, sc_vars >>

\* lines 694-702: /representations/representation_1 and its data folder
MakeRepresentationFolders ==
    /\ pc = "premis_ie"
    /\ dirs' = dirs \cup {<<"representations">>, RepresentationDir,
                          RepresentationDataDir}
    /\ Stage("mkdir representation")
    /\ pc' = "representation"
    /\ UNCHANGED << crash, run_vars, ids, issued, files, bag, archive, inputs, sc_vars >>

\* the essence moved into the data folder instead of copied
MoveEssence ==
    /\ pc = "representation"
    /\ \E content \in Digests :
        files' = Put(files,
                     InRoot(RepresentationDataDir, get_essence_path(message[1]).name),
                     DataFile(content))
    /\ Stage("copy essence")
    /\ pc' = "essence"
    /\ UNCHANGED << crash, run_vars, ids, issued, dirs, bag, archive, inputs, sc_vars >>

\* lines 703-706: copy the essence
CopyEssence ==
    /\ pc = "representation"
    /\ \E content \in Digests :
        LET essence_path == get_essence_path(message[1])
        IN  /\ inputs' = Put(inputs, essence_path, DataFile(content))
            /\ files' = Put(files, InRoot(RepresentationDataDir, essence_path.name),
                            DataFile(content))
    /\ Stage("copy essence")
    /\ pc' = "essence"
    /\ UNCHANGED << crash, run_vars, ids, issued, dirs, bag, archive, sc_vars >>

RECURSIVE CopyAll(_, _, _)
\* lines 708-713: shutil.copy of every collateral in turn into the data folder
CopyAll(paths, source, target) ==
    IF paths = <<>> THEN target
    ELSE CopyAll(Tail(paths), source,
                 Put(target, InRoot(RepresentationDataDir, Head(paths).name),
                     source[Head(paths)]))

Range(seq) == {seq[i] : i \in 1..Len(seq)}

\* lines 708-713: copy the collaterals
CopyCollaterals ==
    /\ pc = "essence"
    /\ LET collateral_paths == get_collateral_paths(message[1])
           unread == Range(collateral_paths) \ DOMAIN inputs
       IN  \E content \in [unread -> Digests] :
             LET source == [p \in unread |-> DataFile(content[p])] @@ inputs
             IN  /\ inputs' = source
                 /\ files' = CopyAll(collateral_paths, source, files)
    /\ Stage("copy collaterals")
    /\ pc' = "collaterals"
    /\ UNCHANGED << crash, run_vars, ids, issued, dirs, bag, archive, sc_vars >>

\* lines 715-728: the metadata folders of the representation
MakeRepresentationMetadataFolders ==
    /\ pc = "collaterals"
    /\ dirs' = dirs \cup {RepresentationMetadataDir, RepresentationDescDir,
                          RepresentationPresDir}
    /\ Stage("mkdir representation metadata")
    /\ pc' = "representation_metadata"
    /\ UNCHANGED << crash, run_vars, ids, issued, files, bag, archive, inputs, sc_vars >>

RECURSIVE WithDigests(_, _)
\* collaterals.items() together with md5(path) of each source path
WithDigests(collaterals, source) ==
    IF collaterals = <<>> THEN <<>>
    ELSE LET c == Head(collaterals)
         IN  <<[uuid |-> c.uuid, path |-> c.path, digest |-> source[c.path].digest]>>
             \o WithDigests(Tail(collaterals), source)

\* lines 730-738, _write_preservation_metadata_representation: premis.xml
\* on representation level; reading a member the enum does not have ends
\* the run with an AttributeError
WritePremisRep ==
    /\ pc = "representation_metadata"
    /\ IF SubtypesRead(ids[1].collaterals_map) \subseteq RelationshipSubtype
       THEN /\ files' = Put(files, PremisRepXml,
                   Document(PremisRep(sidecar[1], get_essence_path(message[1]),
                                      ids[1].rep_uuid, ids[1].file_uuid,
                                      ids[1].ie_uuid,
                                      WithDigests(ids[1].collaterals_map, inputs))))
            /\ Stage("premis.xml representation")
            /\ pc' = "premis_rep"
            /\ UNCHANGED crash
       ELSE /\ Raise("AttributeError")
            /\ UNCHANGED << files, stages >>
    /\ UNCHANGED << run_vars, ids, issued, dirs, bag, archive, inputs, sc_vars >>

\* mets.File for a file: the arguments bag.py hands to the constructor;
\* rooted tells whether path was built from sip_root_folder
MetsFile(label, path, rooted, checksum) ==
    [file_type |-> "FILE", label |-> label, path |-> path, rooted |-> rooted,
     checksum |-> checksum, children |-> <<>>]
\* mets.File for a directory, and File.add_child
MetsFolder(use) == [file_type |-> "DIRECTORY", use |-> use, children |-> <<>>]
add_child(folder, child) == [folder EXCEPT !.children = Append(@, child)]

RECURSIVE CollateralFiles(_, _)
\* _create_representation_mets, lines 364-380
CollateralFiles(names, tree) ==
    IF names = <<>> THEN <<>>
    ELSE LET collateral_path == InRoot(RepresentationDataDir, Head(names))
         IN  <<MetsFile("data", collateral_path, TRUE, tree[collateral_path].digest)>>
             \o CollateralFiles(Tail(names), tree)

RECURSIVE Names(_)
Names(paths) == IF paths = <<>> THEN <<>> ELSE <<Head(paths).name>> \o Names(Tail(paths))

\* Bag._create_representation_mets
RepresentationMets(msg, sc, tree) ==
    LET pres_file == MetsFile("preservation", PremisRepXml, FALSE,
                              tree[PremisRepXml].digest)
        data_file == MetsFile("data",
                              InRoot(RepresentationDataDir, get_essence_path(msg).name),
                              FALSE, sc.md5)
        metadata_preserv_folder ==
            add_child(MetsFolder("metadata/preservation"), pres_file)
        data_folder ==
            [MetsFolder("data") EXCEPT !.children =
                <<data_file>> \o CollateralFiles(Names(get_collateral_paths(msg)), tree)]
        metadata_folder ==
            add_child(add_child(MetsFolder("metadata"),
                                MetsFolder("metadata/descriptive")),
                      metadata_preserv_folder)
    IN  [ files |-> <<metadata_folder, data_folder>>, dmdsec |-> <<>>,
          amdsec |-> <<pres_file>> ]

\* lines 740-744: the representation mets.xml
WriteRepMets ==
    /\ pc = "premis_rep"
    /\ files' = Put(files, RepMetsXml,
                    Document(RepresentationMets(message[1], sidecar[1], files)))
    /\ Stage("mets.xml representation")
    /\ pc' = "rep_mets"
    /\ UNCHANGED << crash, run_vars, ids, issued, dirs, bag, archive, inputs, sc_vars >>

\* Bag._create_package_mets, with the label the organisation API returned
PackageMets(cp_name, tree) ==
    LET desc_ie_file == MetsFile("descriptive", DcXml, FALSE, tree[DcXml].digest)
        pres_ie_file == MetsFile("preservation", PremisIEXml, FALSE,
                                 tree[PremisIEXml].digest)
        reps_file == MetsFile("representation_1", RepMetsXml, FALSE,
                              tree[RepMetsXml].digest)
        metadata_desc_folder ==
            add_child(MetsFolder("metadata/descriptive"), desc_ie_file)
        metadata_pres_folder ==
            add_child(MetsFolder("metadata/preservation"), pres_ie_file)
        metadata_preserv_folder == MetsFolder("metadata/preservation")
        reps_folder_1 ==
            add_child(MetsFolder("representations/representation_1"), reps_file)
        reps_folder == add_child(MetsFolder("representations"), reps_folder_1)
        metadata_folder ==
            add_child(add_child(MetsFolder("metadata"), metadata_desc_folder),
                      metadata_preserv_folder)
        root_folder ==
            add_child(add_child(MetsFolder("root"), metadata_folder), reps_folder)
    IN  [ agents |-> <<"meemoo SIP creator", cp_name, cp_name>>,
          files |-> <<root_folder>>, dmdsec |-> <<desc_ie_file>>,
          amdsec |-> <<pres_ie_file>> ]

\* lines 746-750: the package mets.xml
WritePackageMets ==
    /\ pc = "rep_mets"
    /\ files' = Put(files, PackageMetsXml, Document(PackageMets("label", files)))
    /\ Stage("mets.xml package")
    /\ pc' = "package_mets"
    /\ UNCHANGED << crash, run_vars, ids, issued, dirs, bag, archive, inputs, sc_vars >>

\* bag.py line 180 and app.py lines 144-146: get_label raises one of the
\* three lookup errors, the message is requeued
LookupFails ==
    /\ pc = "rep_mets"
    /\ \E error \in {"ConnectionError", "MaxRetryError", "RetryError"} :
        send_nack_message(TRUE)
    /\ pc' = "done"
    /\ UNCHANGED << crash, message, found, sidecar, attributes, data, events >>
    /\ UNCHANGED << bag_vars, sc_vars >>

\* bagit.make_bag: the payload moves under data/ and the tag files appear
InBag(f) == InRoot(<<"data">> \o f.dir, f.name)
TagFiles ==
    { InRoot(<<>>, <<"bagit", "txt">>), InRoot(<<>>, <<"bag-info", "txt">>),
      InRoot(<<>>, <<"manifest-md5", "txt">>) }
TagManifest == InRoot(<<>>, <<"tagmanifest-md5", "txt">>)

\* make_bag writing every payload file anew while it moves it
BaggedRewritten(tree) ==
    [f \in {InBag(g) : g \in DOMAIN tree} \cup TagFiles \cup {TagManifest} |->
        IF f \in TagFiles \cup {TagManifest} THEN Document(f.name)
        ELSE [tree[CHOOSE g \in DOMAIN tree : InBag(g) = f]
                EXCEPT !.digest = <<"e", "f">>]]

Bagged(tree) ==
    [f \in {InBag(g) : g \in DOMAIN tree} \cup TagFiles \cup {TagManifest} |->
        IF f \in TagFiles \cup {TagManifest} THEN Document(f.name)
        ELSE tree[CHOOSE g \in DOMAIN tree : InBag(g) = f]]

\* bag.entries: the md5 of every file the manifests list
Entries(bagged) == [f \in DOMAIN bagged \ {TagManifest} |-> bagged[f].digest]

\* lines 752-761: make the bag
MakeBag ==
    /\ pc = "package_mets"
    /\ files' = Bagged(files)
    /\ dirs' = {<<>>} \cup {<<"data">> \o d : d \in dirs}
    /\ bag' = <<Entries(Bagged(files))>>
    /\ Stage("make_bag")
    /\ pc' = "bagged"
    /\ UNCHANGED << crash, run_vars, ids, issued, archive, inputs, sc_vars >>

\* root_folder = Path(essence_path.parent, essence_path.stem)
RootFolder(msg) ==
    [dir |-> get_essence_path(msg).dir, name |-> Stem(get_essence_path(msg).name)]

\* bag_path = root_folder.with_suffix(".bag.zip")
BagPath(msg) ==
    [dir |-> RootFolder(msg).dir,
     name |-> WithSuffix(RootFolder(msg).name, <<"bag", "zip">>)]

\* the zip written without the files make_bag added
ZipPayloadOnly ==
    /\ pc = "bagged"
    /\ archive' = <<[path |-> BagPath(message[1]),
                     members |-> DOMAIN files \ (TagFiles \cup {TagManifest})]>>
    /\ Stage("zip")
    /\ pc' = "zipped"
    /\ UNCHANGED << crash, run_vars, ids, issued, dirs, files, bag, inputs, sc_vars >>

\* lines 763-767: zip the bag
ZipBag ==
    /\ pc = "bagged"
    /\ archive' = <<[path |-> BagPath(message[1]), members |-> DOMAIN files]>>
    /\ Stage("zip")
    /\ pc' = "zipped"
    /\ UNCHANGED << crash, run_vars, ids, issued, dirs, files, bag, inputs, sc_vars >>

\* the working directory removed before it is zipped
RemoveRootUnzipped ==
    /\ pc \in {"bagged", "zipped"}
    /\ dirs' = {}
    /\ files' = NoFiles
    /\ Stage("rmtree")
    /\ pc' = "returned"
    /\ UNCHANGED << crash, run_vars, ids, issued, bag, archive, inputs, sc_vars >>

\* lines 769-772: remove root_folder and return
RemoveRoot ==
    /\ pc = "zipped"
    /\ dirs' = {}
    /\ files' = NoFiles
    /\ Stage("rmtree")
    /\ pc' = "returned"
    /\ UNCHANGED << crash, run_vars, ids, issued, bag, archive, inputs, sc_vars >>

\* a call into the filesystem or a library raises while create_sip_bag or
\* the code after it is at work; nothing in do_work catches it
Working ==
    { "ids", "root", "dc", "preservation", "premis_ie", "representation",
      "essence", "collaterals", "representation_metadata", "premis_rep",
      "rep_mets", "package_mets", "bagged", "zipped", "returned" }

RaiseOSError ==
    /\ pc \in Working
    /\ Raise("OSError")
    /\ UNCHANGED << run_vars, bag_vars, sc_vars >>

\* re.compile("data/representations/.*/data/.*").match(filepath)
RegexMatch(f) ==
    /\ Len(f.dir) >= 4
    /\ f.dir[1] = "data"
    /\ f.dir[2] = "representations"
    /\ \E k \in 4..Len(f.dir) : f.dir[k] = "data"

\* do_work, lines 148-191: look up the manifest md5, complete the payload,
\* compare with the sidecar md5, send the event and the ack or nack.  The
\* loop keeps the md5 of the matching entry it visits last.
Reconcile ==
    /\ pc = "returned"
    /\ LET matching == {f \in DOMAIN bag[1] : RegexMatch(f)}
       IN  IF matching = {}
           THEN /\ Raise("UnboundLocalError")
                /\ UNCHANGED << data, events, callbacks >>
           ELSE \E last \in matching :
                LET md5_hash_essence_manifest == bag[1][last]
                    payload ==
                        Put(Put(Put(Put(data,
                            "md5_hash_essence_sidecar", S(sidecar[1].md5)),
                            "path", S(BagPath(message[1]).name)),
                            "bag_filesize", S(<<"size">>)),
                            "md5_hash_essence_manifest", S(md5_hash_essence_manifest))
                IN  /\ pc' = "done"
                    /\ UNCHANGED crash
                    /\ IF md5_hash_essence_manifest # Lower(sidecar[1].md5)
                       THEN /\ send_failed_pulsar_message(attributes[1], payload,
                                   "Supplied MD5 differs from the calculated MD5.")
                            /\ send_nack_message(FALSE)
                       ELSE LET ok == Put(Put(payload, "outcome", S(<<"success">>)),
                                          "message", S(<<"SIP created">>))
                            IN  /\ data' = ok
                                /\ send_pulsar_message(attributes[1], ok)
                                /\ send_ack_message
    /\ UNCHANGED << message, found, sidecar, attributes >>
    /\ UNCHANGED << bag_vars, sc_vars >>

Next ==
    \/ ParseMessage
    \/ GetPaths
    \/ CheckPaths
    \/ ParseSidecar
    \/ AllocateIds
    \/ ReturnNone
    \/ MakeRootFolders
    \/ WriteDescriptive
    \/ MakePreservationFolder
    \/ WritePremisIE
    \/ MakeRepresentationFolders
    \/ CopyEssence
    \/ CopyCollaterals
    \/ MakeRepresentationMetadataFolders
    \/ WritePremisRep
    \/ WriteRepMets
    \/ WritePackageMets
    \/ LookupFails
    \/ MakeBag
    \/ ZipBag
    \/ RemoveRoot
    \/ RaiseOSError
    \/ Reconcile

Spec == Init /\ [][Next]_vars

\* ---------------------------------------- the sidecar parser on its own
InitSidecar ==
    /\ Blank
    /\ pc = "document"
    /\ sc_doc \in SidecarDocs
    /\ gm_file = <<>>
    /\ st_mimetype = NoneV

\* Sidecar(xml_path)
SidecarNew ==
    /\ pc = "document"
    /\ IF SidecarError(sc_doc) # ""
       THEN /\ sc_error' = SidecarError(sc_doc)
            /\ pc' = "raised"
            /\ UNCHANGED sidecar
       ELSE /\ sidecar' = <<SidecarInit(sc_doc)>>
            /\ pc' = "constructed"
            /\ UNCHANGED sc_error
    /\ UNCHANGED << crash, message, found, attributes, data, events, callbacks >>
    /\ UNCHANGED << bag_vars, sc_doc, sc_name, fn_vars, ln_vars >>

\* sidecar.calculate_original_filename()
OriginalFilename ==
    /\ pc = "constructed"
    /\ sc_name' = calculate_original_filename(sidecar[1])
    /\ pc' = "named"
    /\ UNCHANGED << crash, run_vars, bag_vars, sc_doc, sc_error, fn_vars,
                    ln_vars >>

NextSidecar == SidecarNew \/ OriginalFilename

SpecSidecar == InitSidecar /\ [][NextSidecar]_vars

\* ------------------------------- the classification functions on their own
InitClassify ==
    /\ Blank
    /\ pc = "call"
    /\ sc_doc = NoDoc
    /\ gm_file \in FileNames
    /\ st_mimetype \in Mimetypes

\* guess_mimetype(Path("/folder", name))
GuessMimetype ==
    /\ pc = "call"
    /\ gm_result' = guess_mimetype(gm_file)
    /\ pc' = "guessed"
    /\ UNCHANGED << crash, run_vars, bag_vars, sc_doc, sc_error, sc_name >>
    /\ UNCHANGED << gm_file, st_mimetype, st_result, ln_vars >>

\* calculate_sip_type(mimetype)
CalculateSipType ==
    /\ pc = "call"
    /\ st_result' = calculate_sip_type(st_mimetype)
    /\ pc' = "typed"
    /\ UNCHANGED << crash, run_vars, bag_vars, sc_doc, sc_error, sc_name >>
    /\ UNCHANGED << gm_file, gm_result, st_mimetype, ln_vars >>

\* bag.py lines 164-168 and 299-303: calculate_sip_type(guess_mimetype(path))
SipTypeOfFile ==
    /\ pc = "guessed"
    /\ st_result' = calculate_sip_type(gm_result)
    /\ pc' = "composed"
    /\ UNCHANGED << crash, run_vars, bag_vars, sc_doc, sc_error, sc_name >>
    /\ UNCHANGED << gm_file, gm_result, st_mimetype, ln_vars >>

NextClassify == GuessMimetype \/ CalculateSipType \/ SipTypeOfFile

SpecClassify == InitClassify /\ [][NextClassify]_vars

\* --------------------------- EventListener: the consumer and its workers
\* the bodies the queue delivers while the listener runs: the essence is
\* in/a.b.mxf, in/a.c.mxf or other/a.b.mxf
Deliveries ==
    { [json |-> TRUE, top |-> TopKeys, items |-> <<essence, SidecarItem>>] :
        essence \in
            { DottedEssenceItem,
              [DottedEssenceItem EXCEPT !.file_name = <<"a", "c", "mxf">>],
              [DottedEssenceItem EXCEPT !.file_path = <<"other">>] } }

\* threading.Thread.is_alive
is_alive(t) == t.state # "ended"

\* handle_message, lines 209-211, with the test on is_alive dropped
MarkHandledAll(ws, ts) ==
    [w \in DOMAIN ws |->
        IF \E i \in DOMAIN ts : ts[i] = w
        THEN [ws[w] EXCEPT !.handled = TRUE]
        ELSE ws[w]]

\* handle_message, lines 209-211: t.handled = True for every thread of the
\* list that is not alive
MarkHandled(ws, ts) ==
    [w \in DOMAIN ws |->
        IF (\E i \in DOMAIN ts : ts[i] = w) /\ ~is_alive(ws[w])
        THEN [ws[w] EXCEPT !.handled = TRUE]
        ELSE ws[w]]

\* handle_message, line 212: [t for t in self.threads if not t.handled]
Unhandled(ws, ts) == SelectSeq(ts, LAMBDA t : ~ws[t].handled)

\* handle_message, lines 207-212, called by the consumer for a delivery
HandlePrune ==
    /\ pc = "listener"
    /\ main = "listen"
    /\ consuming
    /\ Len(workers) < MaxWorkers
    /\ \E body \in Deliveries : delivery' = <<body>>
    /\ workers' = MarkHandled(workers, threads)
    /\ threads' = Unhandled(workers', threads)
    /\ main' = "start"
    /\ UNCHANGED << consuming, thread, pending, acked, joining >>
    /\ UNCHANGED << pc, crash, run_vars, bag_vars, sc_doc, sc_error, sc_name,
                    fn_vars >>

\* handle_message, lines 214-218: the thread is created and started
HandleStart ==
    /\ main = "start"
    /\ workers' = Append(workers,
           [state |-> "working", handled |-> FALSE, callback |-> FALSE,
            message |-> MessageInit(delivery[1])])
    /\ thread' = <<Len(workers) + 1>>
    /\ main' = "append"
    /\ UNCHANGED << consuming, threads, delivery, pending, acked, joining >>
    /\ UNCHANGED << pc, crash, run_vars, bag_vars, sc_doc, sc_error, sc_name,
                    fn_vars >>

\* handle_message, line 219: self.threads.append(thread)
HandleAppend ==
    /\ main = "append"
    /\ threads' = Append(threads, thread[1])
    /\ thread' = <<>>
    /\ delivery' = <<>>
    /\ main' = "listen"
    /\ UNCHANGED << consuming, workers, pending, acked, joining >>
    /\ UNCHANGED << pc, crash, run_vars, bag_vars, sc_doc, sc_error, sc_name,
                    fn_vars >>

\* do_work ends with send_ack_message or send_nack_message: the callback
\* is handed to connection.add_callback_threadsafe, which raises on a
\* closed connection
WorkerSchedule(w) ==
    /\ workers[w].state = "working"
    /\ IF main = "closed"
       THEN /\ workers' = [workers EXCEPT ![w].state = "ended"]
            /\ UNCHANGED pending
       ELSE /\ workers' = [workers EXCEPT ![w].state = "scheduled",
                                          ![w].callback = TRUE]
            /\ pending' = Append(pending, w)
    /\ UNCHANGED << main, consuming, threads, thread, delivery, acked, joining >>
    /\ UNCHANGED << pc, crash, run_vars, bag_vars, sc_doc, sc_error, sc_name,
                    fn_vars >>

\* an exception leaves do_work: the thread ends without a callback
WorkerRaise(w) ==
    /\ workers[w].state = "working"
    /\ workers' = [workers EXCEPT ![w].state = "ended"]
    /\ UNCHANGED << main, consuming, threads, thread, delivery, pending, acked,
                    joining >>
    /\ UNCHANGED << pc, crash, run_vars, bag_vars, sc_doc, sc_error, sc_name,
                    fn_vars >>

\* do_work returns after its callback was scheduled: the thread ends
WorkerExit(w) ==
    /\ workers[w].state = "scheduled"
    /\ workers' = [workers EXCEPT ![w].state = "ended"]
    /\ UNCHANGED << main, consuming, threads, thread, delivery, pending, acked,
                    joining >>
    /\ UNCHANGED << pc, crash, run_vars, bag_vars, sc_doc, sc_error, sc_name,
                    fn_vars >>

\* exit_gracefully: the signal handler runs between two steps of the main
\* thread and calls stop_consuming
exit_gracefully ==
    /\ pc = "listener"
    /\ main \in {"listen", "start", "append"}
    /\ consuming
    /\ consuming' = FALSE
    /\ UNCHANGED << main, workers, threads, thread, delivery, pending, acked,
                    joining >>
    /\ UNCHANGED << pc, crash, run_vars, bag_vars, sc_doc, sc_error, sc_name,
                    fn_vars >>

\* ack_message / nack_message, run by the connection's thread for the
\* oldest callback while it is inside listen
Dispatch ==
    /\ main = "listen"
    /\ pending # <<>>
    /\ acked' = acked \cup {Head(pending)}
    /\ pending' = Tail(pending)
    /\ UNCHANGED << main, consuming, workers, threads, thread, delivery,
                    joining >>
    /\ UNCHANGED << pc, crash, run_vars, bag_vars, sc_doc, sc_error, sc_name,
                    fn_vars >>

\* start, line 231: listen returns once consuming has stopped
ListenReturn ==
    /\ pc = "listener"
    /\ main = "listen"
    /\ ~consuming
    /\ main' = "join"
    /\ joining' = 1
    /\ UNCHANGED << consuming, workers, threads, thread, delivery, pending,
                    acked >>
    /\ UNCHANGED << pc, crash, run_vars, bag_vars, sc_doc, sc_error, sc_name,
                    fn_vars >>

\* a join that returns at once
JoinedAtOnce(ws, t) == TRUE

\* thread.join() returns when the thread is not alive
Joined(ws, t) == ~is_alive(ws[t])

\* start, lines 233-234: for thread in self.threads: thread.join()
Join ==
    /\ main = "join"
    /\ IF joining > Len(threads)
       THEN /\ main' = "drain"
            /\ UNCHANGED joining
       ELSE /\ Joined(workers, threads[joining])
            /\ joining' = joining + 1
            /\ UNCHANGED main
    /\ UNCHANGED << consuming, workers, threads, thread, delivery, pending,
                    acked >>
    /\ UNCHANGED << pc, crash, run_vars, bag_vars, sc_doc, sc_error, sc_name,
                    fn_vars >>

\* start, line 236: connection.process_data_events() runs the callbacks
\* that were added up to now
ProcessDataEvents ==
    /\ main = "drain"
    /\ acked' = acked \cup {pending[i] : i \in DOMAIN pending}
    /\ pending' = <<>>
    /\ main' = "close"
    /\ UNCHANGED << consuming, workers, threads, thread, delivery, joining >>
    /\ UNCHANGED << pc, crash, run_vars, bag_vars, sc_doc, sc_error, sc_name,
                    fn_vars >>

\* start, line 239: connection.close()
Close ==
    /\ main = "close"
    /\ main' = "closed"
    /\ UNCHANGED << consuming, workers, threads, thread, delivery, pending,
                    acked, joining >>
    /\ UNCHANGED << pc, crash, run_vars, bag_vars, sc_doc, sc_error, sc_name,
                    fn_vars >>

\* EventListener() is constructed and start() has entered listen
InitListener ==
    /\ Blank
    /\ pc = "listener"
    /\ sc_doc = NoDoc
    /\ gm_file = <<>>
    /\ st_mimetype = NoneV

NextListener ==
    \/ HandlePrune
    \/ HandleStart
    \/ HandleAppend
    \/ \E w \in DOMAIN workers : WorkerSchedule(w)
    \/ \E w \in DOMAIN workers : WorkerRaise(w)
    \/ \E w \in DOMAIN workers : WorkerExit(w)
    \/ exit_gracefully
    \/ Dispatch
    \/ ListenReturn
    \/ Join
    \/ ProcessDataEvents
    \/ Close

SpecListener == InitListener /\ [][NextListener]_vars

\* ------------------------------ _create_representation_mets on its own
InitRepMets ==
    /\ Blank
    /\ pc = "mets"
    /\ sc_doc = NoDoc
    /\ gm_file = <<>>
    /\ st_mimetype = NoneV

\* Bag._create_representation_mets(sip_root_folder) for a message with an
\* essence, a sidecar and any collaterals, once the data folder holds the
\* copies and premis.xml is written
CreateRepresentationMets ==
    /\ pc = "mets"
    /\ \E body \in Bodies, declared \in Digests \cup {<<"A", "B">>} :
        /\ MessageError(body) = ""
        /\ HasFile(MessageInit(body), "essence")
        /\ HasFile(MessageInit(body), "sidecar")
        /\ LET msg == MessageInit(body)
               sc == SidecarInit([NoDoc EXCEPT !.wellformed = TRUE,
                                               !.md5 = S(declared)])
               copies == { InRoot(RepresentationDataDir, path.name) :
                             path \in {get_essence_path(msg)}
                                      \cup Range(get_collateral_paths(msg)) }
           IN  \E digests \in [copies -> Digests] :
                 LET tree == [f \in copies \cup {PremisRepXml} |->
                                 IF f = PremisRepXml THEN Document(<<>>)
                                 ELSE DataFile(digests[f])]
                 IN  /\ message' = <<msg>>
                     /\ sidecar' = <<sc>>
                     /\ files' = Put(tree, RepMetsXml,
                                     Document(RepresentationMets(msg, sc, tree)))
    /\ pc' = "mets built"
    /\ UNCHANGED << crash, found, attributes, data, events, callbacks >>
    /\ UNCHANGED << ids, issued, dirs, bag, archive, stages, inputs, sc_vars >>

SpecRepMets == InitRepMets /\ [][CreateRepresentationMets]_vars

\* ================================================================ claims
Final == {"done", "dead"}
Nack(requeue) == [op |-> "nack", requeue |-> requeue]
Ack == [op |-> "ack", requeue |-> FALSE]
Outcome(event) == event.data["outcome"]
Failure == S(<<"failure">>)
Success == S(<<"success">>)
\* do_work sent the success event and scheduled the ack
Succeeded ==
    /\ pc = "done"
    /\ Len(events) = 1
    /\ Outcome(events[1]) = Success
    /\ callbacks = <<Ack>>
\* the sidecar was found invalid
SidecarRejected ==
    /\ pc = "done"
    /\ found # <<>>
    /\ found[1].essence /\ found[1].sidecar
    /\ sidecar = <<>>
\* do_work got to the end of the reconciliation
Reconciled == pc = "done" /\ archive # <<>>

C2_ExactlyOneAckOrNack == pc \in Final => Len(callbacks) = 1

EssenceInBag(msg) ==
    InRoot(<<"data">> \o RepresentationDataDir, get_essence_path(msg).name)
\* nothing outside the program stopped the run: no call into the
\* filesystem or a library raised and the label lookup answered
EnvironmentHeld ==
    /\ crash \notin {"OSError", "TypeError"}
    /\ callbacks # <<Nack(TRUE)>>

\* C3: for any number of collaterals, a run that has copied the essence and
\* is not stopped by its environment succeeds if and only if the lower-cased
\* sidecar md5 equals the md5 of the essence's own file in the package.
C3_SucceedsIffEssenceDigest ==
    (pc \in Final /\ EnvironmentHeld
        /\ message # <<>> /\ HasFile(message[1], "essence")
        /\ get_essence_path(message[1]) \in DOMAIN inputs)
    => (Succeeded <=>
            Lower(sidecar[1].md5) = inputs[get_essence_path(message[1])].digest)

StageRank(stage) ==
    CASE stage = "ids" -> 0
      [] stage \in {"mkdir root", "mkdir preservation", "mkdir representation",
                    "mkdir representation metadata"} -> 1
      [] stage = "dc.xml" -> 2
      [] stage = "premis.xml ie" -> 3
      [] stage = "premis.xml representation" -> 4
      [] stage \in {"copy essence", "copy collaterals"} -> 5
      [] stage \in {"mets.xml representation", "mets.xml package"} -> 6
      [] stage = "make_bag" -> 7
      [] stage = "zip" -> 8
      [] stage = "rmtree" -> 9
NoStageTwice == \A i, j \in 1..Len(stages) : i # j => stages[i] # stages[j]

ActualOrder ==
    << "ids", "mkdir root", "dc.xml", "mkdir preservation", "premis.xml ie",
       "mkdir representation", "copy essence", "copy collaterals",
       "mkdir representation metadata", "premis.xml representation",
       "mets.xml representation", "mets.xml package", "make_bag", "zip",
       "rmtree" >>
IsPrefix(s, t) == Len(s) <= Len(t) /\ s = SubSeq(t, 1, Len(s))

C6_MissingPathRejected ==
    (found # <<>> /\ (~found[1].essence \/ ~found[1].sidecar))
    => /\ pc = "done"
       /\ dirs = {}
       /\ DOMAIN files = {}
       /\ archive = <<>>
       /\ sidecar = <<>>
       /\ stages = <<>>
       /\ callbacks = <<Nack(FALSE)>>

\* the essence is there, the sidecar is not
C6_Witness ==
    /\ found = <<[essence |-> TRUE, sidecar |-> FALSE]>>
    /\ callbacks = <<Nack(FALSE)>>

IsBlank(text) == \A i \in 1..Len(text) : text[i] \in Whitespace
\* trimmed is raw without its leading and trailing whitespace
IsTrimOf(trimmed, raw) ==
    \E i, j \in 0..Len(raw) :
        /\ i + j <= Len(raw)
        /\ trimmed = SubSeq(raw, i + 1, Len(raw) - j)
        /\ \A k \in 1..i : raw[k] \in Whitespace
        /\ \A k \in (Len(raw) - j + 1)..Len(raw) : raw[k] \in Whitespace
        /\ trimmed # <<>> => (trimmed[1] \notin Whitespace
                              /\ trimmed[Len(trimmed)] \notin Whitespace)

\* C7: Sidecar() raises the XML syntax error exactly for a document that is
\* not well-formed, raises "Missing mandatory key: 'md5'" for a well-formed
\* document exactly when md5 is absent, empty or whitespace only, and in every
\* other case returns with md5 equal to the trimmed text.
C7_SidecarValidation ==
    pc \in {"raised", "constructed", "named"} =>
        /\ sc_error = "XML syntax error" <=> ~sc_doc.wellformed
        /\ sc_doc.wellformed =>
             (sc_error = "Missing mandatory key: 'md5'"
                 <=> (IsNone(sc_doc.md5) \/ IsBlank(Text(sc_doc.md5))))
        /\ sc_error = "" =>
             /\ sidecar # <<>>
             /\ IsTrimOf(sidecar[1].md5, Text(sc_doc.md5))

\* a whitespace-only md5 is refused
C7_Witness ==
    /\ pc = "raised"
    /\ sc_doc.md5 = S(<<" ">>)
    /\ sc_error = "Missing mandatory key: 'md5'"

Present(o) == ~IsNone(o)

\* C8 (as claimed): calculate_original_filename returns the Bestandsnaam
\* entry if present, else the bestandsnaam entry if present, else dc_source
\* if present, else None.
C8_PriorityByPresence ==
    pc = "named" =>
        sc_name = (IF Present(sc_doc.Bestandsnaam) THEN sc_doc.Bestandsnaam
                   ELSE IF Present(sc_doc.bestandsnaam) THEN sc_doc.bestandsnaam
                   ELSE IF Present(sc_doc.dc_source) THEN sc_doc.dc_source
                   ELSE NoneV)

NonEmpty(o) == Present(o) /\ Len(Text(o)) > 0

\* C8 (amended): calculate_original_filename returns the Bestandsnaam entry
\* if present and not empty, else the bestandsnaam entry if present and not
\* empty, else dc_source if present and not empty, else None.
C8_PriorityByNonEmpty ==
    pc = "named" =>
        sc_name = (IF NonEmpty(sc_doc.Bestandsnaam) THEN sc_doc.Bestandsnaam
                   ELSE IF NonEmpty(sc_doc.bestandsnaam) THEN sc_doc.bestandsnaam
                   ELSE IF NonEmpty(sc_doc.dc_source) THEN sc_doc.dc_source
                   ELSE NoneV)

\* both entries given: the capitalised one is returned
C8_Witness ==
    /\ pc = "named"
    /\ sc_doc.Bestandsnaam = S(<<"B">>)
    /\ sc_doc.bestandsnaam = S(<<"b">>)
    /\ sc_name = S(<<"B">>)

\* where a file of the working directory is now: under data/ once bagged
At(f) == IF bag = <<>> THEN f ELSE InBag(f)
Written(f) == At(f) \in DOMAIN files
DocAt(f) == files[At(f)].doc

AllocatedIds ==
    IF ids = <<>> THEN <<>>
    ELSE << ids[1].ie_uuid, ids[1].rep_uuid, ids[1].file_uuid >>
         \o Keys(ids[1].collaterals_map)

\* the identifiers a PREMIS argument is made of
Atoms(o) == Range(o.v)
ObjectsOfType(p, type) == {o \in Range(p.objects) : o.type = type}
\* the values of the identifiers of type uuid
IdentifierAtoms(nodes) ==
    UNION { UNION { Atoms(n.identifiers[k].value)
                    : k \in { h \in DOMAIN n.identifiers
                              : n.identifiers[h].type = "uuid" } }
            : n \in nodes }
RelatedAtoms(nodes, subtype) ==
    UNION { UNION { Atoms(n.relationships[k].uuid)
                    : k \in { h \in DOMAIN n.relationships
                              : n.relationships[h].subtype = subtype } }
            : n \in nodes }
LinkedObjectAtoms(p, role) ==
    UNION { UNION { Atoms(p.events[e].linking_object_identifiers[k].value)
                    : k \in { h \in DOMAIN p.events[e].linking_object_identifiers
                              : p.events[e].linking_object_identifiers[h].role = role } }
            : e \in { h \in DOMAIN p.events : p.events[h].class = "event" } }

RECURSIVE MetsEntries(_)
\* the file entries of a tree of mets.File
MetsEntries(nodes) ==
    IF nodes = <<>> THEN {}
    ELSE (IF Head(nodes).file_type = "FILE" THEN {Head(nodes)} ELSE {})
         \cup MetsEntries(Head(nodes).children)
         \cup MetsEntries(Tail(nodes))
\* the texts a METS document carries for its files besides their paths
MetsTexts(doc) ==
    { e.checksum : e \in MetsEntries(doc.files) \cup Range(doc.amdsec) \cup Range(doc.dmdsec) }

\* the PREMIS documents and the descriptive record use the allocated values
PremisUsesAllocated ==
    /\ Written(DcXml) => DocAt(DcXml).ie_uuid = ids[1].ie_uuid
    /\ Written(PremisIEXml) =>
         LET p == DocAt(PremisIEXml)
         IN  /\ IdentifierAtoms(ObjectsOfType(p, "IE")) = {ids[1].ie_uuid}
             /\ RelatedAtoms(ObjectsOfType(p, "IE"), "REPRESENTED_BY")
                    = {ids[1].rep_uuid}
             /\ LinkedObjectAtoms(p, "outcome") \subseteq {ids[1].rep_uuid}
    /\ Written(PremisRepXml) =>
         LET p == DocAt(PremisRepXml)
             file_ids == {ids[1].file_uuid} \cup Range(Keys(ids[1].collaterals_map))
         IN  /\ IdentifierAtoms(ObjectsOfType(p, "REPRESENTATION")) = {ids[1].rep_uuid}
             /\ RelatedAtoms(ObjectsOfType(p, "REPRESENTATION"), "REPRESENTS")
                    = {ids[1].ie_uuid}
             /\ RelatedAtoms(ObjectsOfType(p, "REPRESENTATION"), "INCLUDES") = file_ids
             /\ IdentifierAtoms(ObjectsOfType(p, "FILE")) = file_ids
             /\ RelatedAtoms(ObjectsOfType(p, "FILE"), "INCLUDED_IN")
                    = {ids[1].rep_uuid}

AllocatedOnceAndDistinct ==
    /\ (DOMAIN files # {} \/ dirs # {}) => ids # <<>>
    /\ Cardinality({i \in DOMAIN stages : stages[i] = "ids"}) <= 1
    /\ ids # <<>> =>
         /\ Len(AllocatedIds) = 3 + Len(get_collateral_paths(message[1]))
         /\ \A i, j \in DOMAIN AllocatedIds :
                i # j => AllocatedIds[i] # AllocatedIds[j]

C9_WitnessCollaterals ==
    /\ Len(AllocatedIds) = 5
    /\ Written(PremisIEXml)

PremisDocuments == { DocAt(f) : f \in {PremisIEXml, PremisRepXml} }
\* the identifier values of the objects and agents the documents emit
EmittedIdentifiers ==
    UNION { UNION { { n.identifiers[k].value : k \in DOMAIN n.identifiers }
                    : n \in { m \in Range(PremisNodes(p))
                              : m.class \in {"object", "agent"} } }
            : p \in PremisDocuments }
\* the values of the related-object identifiers as rendered, and of the
\* linking identifiers of the events
ReferencedIdentifiers ==
    UNION { UNION { UNION { Range(RelatedObjectIdentifiers(o.relationships[k]))
                            : k \in DOMAIN o.relationships }
                    : o \in { m \in Range(PremisNodes(p)) : m.class = "object" } }
            \cup
            UNION { { e.linking_agent_identifiers[k].value
                      : k \in DOMAIN e.linking_agent_identifiers }
                    \cup { e.linking_object_identifiers[k].value
                           : k \in DOMAIN e.linking_object_identifiers }
                    : e \in { m \in Range(PremisNodes(p)) : m.class = "event" } }
            : p \in PremisDocuments }

\* C10: once both PREMIS documents of a package are written, every
\* related-object identifier of a relationship and every linking-object and
\* linking-agent identifier of an event equals the identifier of an object
\* or agent one of the two documents emits.
C10_ReferentialIntegrity ==
    (Written(PremisIEXml) /\ Written(PremisRepXml))
    => ReferencedIdentifiers \subseteq EmittedIdentifiers

\* ids as a relationship lists them, one string each
Listed(uuids) == [i \in DOMAIN uuids |-> S(uuids[i])]
IsSubtype(subtype, rel) == rel.subtype = subtype
\* the related-object identifiers an object renders for one subtype
RECURSIVE RenderedFor(_, _)
RenderedFor(rels, subtype) ==
    IF rels = <<>> THEN <<>>
    ELSE (IF IsSubtype(subtype, Head(rels))
          THEN RelatedObjectIdentifiers(Head(rels)) ELSE <<>>)
         \o RenderedFor(Tail(rels), subtype)
CountFor(rels, subtype) ==
    Cardinality({k \in DOMAIN rels : IsSubtype(subtype, rels[k])})
ObjectWithId(p, uuid) ==
    CHOOSE o \in Range(p.objects) :
        \E k \in DOMAIN o.identifiers : o.identifiers[k].value = S(uuid)

\* C11: for N >= 0 collaterals the representation-level PREMIS is built,
\* the representation INCLUDES the file and the N collaterals and REPRESENTS
\* the IE, the file is INCLUDED_IN the representation and IS_REQUIRED_BY
\* exactly the N collaterals (no such relationship when N = 0), every
\* collateral is INCLUDED_IN the representation and REQUIRES the file, and
\* each relationship renders one related-object identifier per listed id.
C11_RelationshipShapes ==
    /\ crash # "AttributeError"
    /\ Written(PremisRepXml) =>
         LET p == DocAt(PremisRepXml)
             keys == Keys(ids[1].collaterals_map)
             rep == ObjectWithId(p, ids[1].rep_uuid)
             file == ObjectWithId(p, ids[1].file_uuid)
         IN  /\ RenderedFor(rep.relationships, "INCLUDES")
                    = Listed(<<ids[1].file_uuid>> \o keys)
             /\ RenderedFor(rep.relationships, "REPRESENTS")
                    = Listed(<<ids[1].ie_uuid>>)
             /\ RenderedFor(file.relationships, "INCLUDED_IN")
                    = Listed(<<ids[1].rep_uuid>>)
             /\ CountFor(file.relationships, "IS_REQUIRED_BY")
                    = (IF keys = <<>> THEN 0 ELSE 1)
             /\ RenderedFor(file.relationships, "IS_REQUIRED_BY") = Listed(keys)
             /\ \A k \in DOMAIN keys :
                  LET c == ObjectWithId(p, keys[k])
                  IN  /\ RenderedFor(c.relationships, "INCLUDED_IN")
                             = Listed(<<ids[1].rep_uuid>>)
                      /\ RenderedFor(c.relationships, "REQUIRES")
                             = Listed(<<ids[1].file_uuid>>)

\* C12: the IE-level PREMIS holds the XDCAM sub-graph exactly when the
\* sidecar's format is 'XDCAM': then one representation object with storage
\* medium XDCAM, one DIGITIZATION event in the event list and two agents in
\* the agent list (the SP agent with the sp_id, the player with model, brand
\* and serial number in its extension); otherwise no event, no agent and no
\* representation object.
C12_XdcamSubGraph ==
    Written(PremisIEXml) =>
        LET p == DocAt(PremisIEXml)
            sc == sidecar[1]
            reps == ObjectsOfType(p, "REPRESENTATION")
        IN  IF sc.format = S(<<"XDCAM">>)
            THEN /\ Cardinality(reps) = 1
                 /\ \A r \in reps : r.storages = <<"XDCAM">>
                 /\ Len(p.events) = 1
                 /\ p.events[1].class = "event"
                 /\ p.events[1].type = "DIGITIZATION"
                 /\ Len(p.agents) = 2
                 /\ \E i, j \in DOMAIN p.agents :
                      /\ p.agents[i].type = "SP Agent"
                      /\ p.agents[i].identifiers[1].value = sc.sp_id
                      /\ p.agents[j].type = "player"
                      /\ p.agents[j].extension
                           = <<[model |-> sc.player_model,
                                brand_name |-> sc.player_manufacturer,
                                serial_number |-> sc.player_serial_number]>>
            ELSE /\ reps = {}
                 /\ p.events = <<>>
                 /\ p.agents = <<>>

\* C13: INCLUDES maps to inc, REPRESENTED_BY to isr, REPRESENTS to rep and
\* INCLUDED_IN to isi, and every subtype the pipeline constructs is a member
\* of RelationshipSubtype with an entry in TYPE_URI_MAP, so that building a
\* relationship never fails.
C13_SubtypeMapTotal ==
    /\ TYPE_URI_MAP["INCLUDES"] = "inc"
    /\ TYPE_URI_MAP["REPRESENTED_BY"] = "isr"
    /\ TYPE_URI_MAP["REPRESENTS"] = "rep"
    /\ TYPE_URI_MAP["INCLUDED_IN"] = "isi"
    /\ ids # <<>> =>
         /\ SubtypesRead(ids[1].collaterals_map) \subseteq RelationshipSubtype
         /\ SubtypesRead(ids[1].collaterals_map) \subseteq DOMAIN TYPE_URI_MAP
    /\ crash # "AttributeError"

\* the cases of test_guess_mimetype the name falls under, in either case
GuessCasesOf(name) ==
    { c \in GuessMimetypeCases :
        name \in { <<"f">> \o c.extension, <<"f">> \o Upper(c.extension) } }

\* C14: for each (extension, mimetype) pair of test_guess_mimetype,
\* guess_mimetype returns that mimetype for the extension in lower and in
\* upper case, and for an extension outside the table it returns None.
C14_GuessMimetypeTable ==
    pc = "guessed" =>
        /\ \A c \in GuessCasesOf(gm_file) : gm_result = S(<<c.mimetype>>)
        /\ GuessCasesOf(gm_file) = {} => gm_result = NoneV

SipCasesOf(mimetype) == { c \in SipTypeCases : mimetype = S(<<c.mimetype>>) }
SipTypes == { c.sip_type : c \in SipTypeCases } \cup {"OTHER"}

\* C15: calculate_sip_type returns the label of test_calculate_sip_type for
\* each of its mimetypes and "OTHER" for every other argument, None
\* included; calculate_sip_type(guess_mimetype(p)) is always defined.
C15_SipTypeTable ==
    /\ pc = "typed" =>
         /\ \A c \in SipCasesOf(st_mimetype) : st_result = c.sip_type
         /\ SipCasesOf(st_mimetype) = {} => st_result = "OTHER"
    /\ pc = "composed" => st_result \in SipTypes

\* C16: the archive lies next to the essence and is named after the essence
\* file name without its final extension, followed by .bag.zip, also when
\* that stem has dots of its own (a.b.mxf gives a.b.bag.zip).
C16_ArchiveNamedAfterStem ==
    archive # <<>> =>
        LET essence == get_essence_path(message[1])
        IN  archive[1].path =
                [dir |-> essence.dir,
                 name |-> SubSeq(essence.name, 1, Len(essence.name) - 1)
                          \o <<"bag", "zip">>]

StageAt(name) == CHOOSE i \in DOMAIN stages : stages[i] = name
Taken(name) == name \in Range(stages)

C19_RequeueIffLookupFailed ==
    /\ \A i \in DOMAIN callbacks :
         callbacks[i] = Nack(TRUE) =>
            /\ stages # <<>>
            /\ stages[Len(stages)] = "mets.xml representation"
            /\ events = <<>>
            /\ archive = <<>>
            /\ dirs = {}
    /\ (pc = "done" /\ Taken("mets.xml package")) => callbacks # <<Nack(TRUE)>>

\* C20: the outcome attribute and the outcome field of the payload of an
\* event agree: both success when the run succeeded, both failure when the
\* sidecar was invalid or the checksums differ.
C20_ConsistentOutcome ==
    \A i \in DOMAIN events :
        IF Outcome(events[i]) = Success
        THEN /\ events[i].attributes.outcome = "success"
             /\ callbacks = <<Ack>>
        ELSE /\ Outcome(events[i]) = Failure
             /\ events[i].attributes.outcome = "failure"

\* C21: a message WatchfolderMessage accepts has an essence entry and a
\* sidecar entry, so get_essence_path and get_xml_path never fail on a
\* message that was parsed: no run ends with the ValueError of _get_files.
C21_AcceptedMessageHasPaths ==
    /\ message # <<>> =>
         /\ HasFile(message[1], "essence")
         /\ HasFile(message[1], "sidecar")
    /\ crash # "ValueError"

Alive == {w \in DOMAIN workers : workers[w].state # "ended"}
InThreads(w) == \E i \in DOMAIN threads : threads[i] = w

\* C22: when start() reaches connection.close(), and ever after, no worker
\* thread is alive, no ack or nack callback is waiting, and every callback
\* a worker has scheduled was run by the connection's thread.
C22_DrainedBeforeClose ==
    main \in {"close", "closed"} =>
        /\ Alive = {}
        /\ pending = <<>>
        /\ \A w \in DOMAIN workers : workers[w].callback => w \in acked

\* the connection is closed after two runs that were still in the list of
\* threads at shutdown had their callbacks run
C22_Witness ==
    /\ main = "closed"
    /\ Len(threads) >= 2
    /\ \A i \in DOMAIN threads : threads[i] \in acked

\* C23: two runs that are alive at the same time and whose essences differ
\* in their base name (the file name without its extension) or in their
\* directory use different working directories and different archive paths.
C23_DisjointPaths ==
    \A v \in Alive, w \in Alive :
        LET a == get_essence_path(workers[v].message)
            b == get_essence_path(workers[w].message)
        IN  (Stem(a.name) # Stem(b.name) \/ a.dir # b.dir) =>
                /\ RootFolder(workers[v].message) # RootFolder(workers[w].message)
                /\ BagPath(workers[v].message) # BagPath(workers[w].message)

\* C24: the IE object of the IE-level PREMIS carries the IE uuid, one
\* identifier for every entry of the sidecar's local-id map whose key is
\* neither bestandsnaam nor Bestandsnaam and none for those two keys, and
\* exactly one REPRESENTED_BY relationship, to the representation id; no
\* identifier is emitted without a value (none for a missing
\* dc_identifier_localid).
C24_IEIdentifiers ==
    Written(PremisIEXml) =>
        LET p == DocAt(PremisIEXml)
            lids == sidecar[1].local_ids
        IN  /\ Cardinality(ObjectsOfType(p, "IE")) = 1
            /\ \A ie \in ObjectsOfType(p, "IE") :
                /\ ie.identifiers[1] = [type |-> "uuid", value |-> S(ids[1].ie_uuid)]
                /\ \A i \in DOMAIN lids :
                     (lids[i].type \notin {"bestandsnaam", "Bestandsnaam"}
                         /\ lids[i].value # NoneV) =>
                        Cardinality({k \in DOMAIN ie.identifiers :
                            ie.identifiers[k] = lids[i]}) = 1
                /\ \A k \in DOMAIN ie.identifiers :
                     /\ ie.identifiers[k].type \notin {"bestandsnaam", "Bestandsnaam"}
                     /\ ie.identifiers[k].value # NoneV
                /\ Len(ie.relationships) = 1
                /\ ie.relationships[1].subtype = "REPRESENTED_BY"
                /\ ie.relationships[1].uuid = L(<<ids[1].rep_uuid>>)

RECURSIVE MetsFolders(_)
\* the directory groups of a tree of mets.File
MetsFolders(nodes) ==
    IF nodes = <<>> THEN {}
    ELSE (IF Head(nodes).file_type = "DIRECTORY" THEN {Head(nodes)} ELSE {})
         \cup MetsFolders(Head(nodes).children)
         \cup MetsFolders(Tail(nodes))

\* a file entry for path is a child of a directory group with this use
EntryUnder(doc, use, path) ==
    \E d \in MetsFolders(doc.files) :
        /\ d.use = use
        /\ \E k \in DOMAIN d.children :
             d.children[k].file_type = "FILE" /\ d.children[k].path = path

\* C26: in the package METS the entries of dc.xml, of the IE premis.xml and
\* of the representation mets.xml hang in the file-group tree under their
\* directory groups (premis.xml under metadata/preservation), and the files
\* the dmdsec and the amdsec refer to are entries of that tree.
C26_PackageFileTree ==
    Written(PackageMetsXml) =>
        LET doc == DocAt(PackageMetsXml)
        IN  /\ EntryUnder(doc, "metadata/descriptive", DcXml)
            /\ EntryUnder(doc, "metadata/preservation", PremisIEXml)
            /\ EntryUnder(doc, "representations/representation_1", RepMetsXml)
            /\ Range(doc.dmdsec) \cup Range(doc.amdsec)
                   \subseteq MetsEntries(doc.files)

\* the file entries a written METS document records
EntriesOf(f) ==
    IF Written(f)
    THEN MetsEntries(DocAt(f).files) \cup Range(DocAt(f).amdsec)
             \cup Range(DocAt(f).dmdsec)
    ELSE {}
RecordedEntries == EntriesOf(RepMetsXml) \cup EntriesOf(PackageMetsXml)
\* the entry of the essence, whose checksum is the one the sidecar declares
DeclaredEntries ==
    IF Written(RepMetsXml) THEN {DocAt(RepMetsXml).files[2].children[1]} ELSE {}
ComputedEntries == RecordedEntries \ DeclaredEntries

C29_CopiesKept ==
    pc = "collaterals" =>
        LET essence_path == get_essence_path(message[1])
            copies == {f \in DOMAIN files : f.dir = RepresentationDataDir}
        IN  /\ Cardinality(copies) = 1 + Len(get_collateral_paths(message[1]))
            /\ files[InRoot(RepresentationDataDir, essence_path.name)]
                   = inputs[essence_path]

\* C30: handle_message never loses a running worker: a thread that is
\* alive is in self.threads (or is the one handle_message has just started
\* and is about to append), only threads that have ended are marked handled
\* and dropped from the list, and so no worker is alive once the join loop
\* of start() is through.
C30_NoWorkerLost ==
    /\ \A w \in Alive : InThreads(w) \/ thread = <<w>>
    /\ main # "append" => thread = <<>>
    /\ \A w \in DOMAIN workers :
         /\ workers[w].handled => w \notin Alive
         /\ (~InThreads(w) /\ thread # <<w>>) => workers[w].handled
    /\ main \in {"drain", "close", "closed"} => Alive = {}

\* a finished thread was pruned while another worker, still in the list, runs
C30_Witness ==
    /\ main = "listen"
    /\ \E w \in DOMAIN workers : workers[w].handled /\ ~InThreads(w)
    /\ \E w \in Alive : InThreads(w)
    /\ Len(workers) >= 3

====
